---- MODULE Spec2Model ----
(***************************************************************************)
(* Real-time messaging and notification fan-out of the community-aid      *)
(* server: server/sockets/chatHandler.js, notificationHandler.js and the   *)
(* Chat model methods of server/models/Chat.js.                            *)
(*                                                                         *)
(* Every async handler is split at its await points.  A handler works on   *)
(* its own loaded copy of the chat document; chat.save() sends the delta   *)
(* of that copy to the store (Mongoose: $push / $pull / positional $set,   *)
(* guarded by the version key __v as lib/model.js `operand` decides):      *)
(*   - push or pull on the top-level messages array: no version check,     *)
(*     the version is incremented;                                         *)
(*   - push or pull on an array nested in a message (readBy, reactions):   *)
(*     version check and increment;                                        *)
(*   - $set of a sub-path of an array element (messages.i.content,         *)
(*     participants.i.lastSeen): version check, no increment.              *)
(* A failed version check rejects the save (VersionError), which the       *)
(* handler's catch turns into an error event.  The store answers every     *)
(* other read and save.  The identity of a socket is the one it carries    *)
(* when chatHandler is called; every inbound event of a socket passes the  *)
(* socket's packet middleware before its handler runs.                     *)
(***************************************************************************)
EXTENDS Integers, Sequences, FiniteSets, TLC

\* ---------------------------------------------------------------- bounds
MaxOps == 3          \* inbound events handled in one run

\* ------------------------------------------------------------- universe
Users == {"a", "b", "c"}
Conns == {"k1", "k2", "k3"}
ChatIds == {"c1", "c0"}          \* "c0" names no stored chat
Emojis == {"up", "heart"}
Contents == {"hello"}
NewContents == {"x"}
Categories == {"medical"}
Coordinates == {"1-1", "2-2"}
Urgencies == {"high", "critical"}
NoUser == "-"
NoChat == "-"

\* User documents (models/User.js): role and isVerified never change here.
role == [u \in Users |-> IF u = "c" THEN "admin" ELSE IF u = "b" THEN "donor" ELSE "receiver"]
isVerified == [u \in Users |-> u = "b"]
pushPreference == [u \in Users |-> u # "c"]

\* the identities the handshake token of a connection can decode to: the first
\* connection is a participant's, the second anyone's (another device of the same
\* identity, the other participant, or the outsider), the third the other
\* participant's
Tokens == [c \in Conns |-> IF c = "k1" THEN {"a"} ELSE IF c = "k2" THEN Users ELSE {"b"}]

VARIABLES
    conn,        \* connection -> "new" | "live" | "closed"
    userOf,      \* connection -> socket.user._id
    rooms,       \* connection -> set of rooms the socket is in
    isOnline,    \* User.isOnline in the store
    lastActive,  \* User.lastActive in the store: number of stamps
    chats,       \* the Chat collection: id -> document
    h,           \* connection -> its handler in flight
    ops,         \* inbound events so far; the next event is numbered ops + 1
    delivered,   \* connection -> the events it has received
    published,   \* the ledger events in the order they were emitted
    commits,     \* the deltas the store applied, in the order it applied them
    joinedAt,    \* connection -> chat id -> Len(commits) when join_chat subscribed it
    authenticated \* connection -> authenticateSocket has attached socket.user

vars == <<conn, userOf, rooms, isOnline, lastActive, chats, h, ops, delivered, published,
          commits, joinedAt, authenticated>>

\* ------------------------------------------------------------ documents
NoLast == [content |-> "", sender |-> NoUser, sentAt |-> 0]

\* messageSchema (the fields the handlers touch); content "" is no content,
\* voiceNote says whether the message carries one
Message(id, sender, content, voiceNote) ==
    [id |-> id, sender |-> sender, content |-> content, voiceNote |-> voiceNote,
     originalContent |-> "", isEdited |-> FALSE, readBy |-> <<>>, reactions |-> <<>>]

\* messageSchema.content.required, `!this.voiceNote && !this.image`, for a
\* message without image: this.voiceNote is a nested path of the subdocument,
\* and whether Mongoose hands an unset nested path to the function as a falsy
\* value or as an (empty) object is the library's matter: both answers
ContentRequired(voiceNote) == {~voiceNote, FALSE}

\* router.post('/create'): two participants with the default role, no message,
\* no unreadCounts entry
NewChat(members) ==
    [participants |-> members,
     role |-> [u \in {members[i] : i \in DOMAIN members} |-> "member"],
     lastSeen |-> [u \in {members[i] : i \in DOMAIN members} |-> 0],
     messages |-> <<>>,
     lastMessage |-> NoLast,
     unreadCounts |-> [u \in {} |-> 0],
     v |-> 0]

Range(s) == {s[i] : i \in DOMAIN s}
Count(s, x) == Cardinality({i \in DOMAIN s : s[i] = x})

\* chat.messages.id(messageId): index of the message, 0 when absent
MessageIndex(doc, mid) ==
    IF \E i \in DOMAIN doc.messages : doc.messages[i].id = mid
    THEN CHOOSE i \in DOMAIN doc.messages : doc.messages[i].id = mid
    ELSE 0

\* the participant check left out
isParticipantUnchecked(doc, u) == TRUE

\* chat.participants.some(p => p.user.toString() === socket.user._id.toString())
isParticipant(doc, u) == \E i \in DOMAIN doc.participants : doc.participants[i] = u

\* ---------------------------------------------------------------- rooms
UserRoom(u) == <<"user", u>>
NotificationRoom(u) == <<"notifications", u>>
ChatRoom(id) == <<"chat", id>>
LocationRoom(xy) == <<"location", xy>>
ResourceRoom(cat) == <<"resource_alerts", cat>>

Live == {c \in Conns : conn[c] = "live"}
InRoom(r) == {c \in Conns : r \in rooms[c]}

\* the audiences of socket.io's emitters
SocketEmit(c) == {c} \cap Live                \* socket.emit
\* io.emit in the place of io.to(room).emit
IoToEveryone(r) == Live
IoTo(r) == InRoom(r)                          \* io.to(room).emit
\* socket.broadcast.emit in the place of socket.to(room).emit
SocketToEveryone(c, r) == Live \ {c}
SocketTo(c, r) == InRoom(r) \ {c}             \* socket.to(room).emit
SocketBroadcast(c) == Live \ {c}              \* socket.broadcast.emit
IoEmit == Live                                \* io.emit

\* how an event was addressed
ToSocket(c) == <<"socket", c>>             \* socket.emit
ToOthers(c) == <<"broadcast", c>>          \* socket.broadcast.emit
ToAll == <<"io", "-">>                     \* io.emit

\* an outbound event: its name, how it was addressed, and what the claims read of
\* its payload (chatId, messageId, the inbound event that caused it, the identity)
Event(ev, via, chat, mid, op, by) ==
    [ev |-> ev, via |-> via, chat |-> chat, mid |-> mid, op |-> op, by |-> by]
Error(c, what, op) == Event("error", ToSocket(c), NoChat, 0, op, what)

\* every socket of the audience receives e
Emit(d, audience, e) == [c \in Conns |-> IF c \in audience THEN d[c] \cup {e} ELSE d[c]]

\* the events of a chat's ledger that go to the chat's room
LedgerEvents == {"new_message", "message_read", "reaction_updated", "message_edited",
                 "message_deleted"}

\* ------------------------------------------------------------- handlers
Idle == [op |-> "none", pc |-> "idle", id |-> 0, chat |-> NoChat, user |-> NoUser,
         v |-> 0, where |-> FALSE, inc |-> FALSE, kind |-> "none",
         mid |-> 0, mids |-> {}, emoji |-> "", content |-> "", voiceNote |-> FALSE,
         original |-> "",
         unread |-> [u \in {} |-> 0], todo |-> <<>>]

Ready(c) == conn[c] = "live" /\ h[c].pc = "idle" /\ ops < MaxOps

\* no connection yet; the store holds one chat of a and b, b its moderator
\* (participants.role), and the three users
Init ==
    /\ conn = [c \in Conns |-> "new"]
    /\ userOf = [c \in Conns |-> NoUser]
    /\ rooms = [c \in Conns |-> {}]
    /\ isOnline = [u \in Users |-> FALSE]
    /\ lastActive = [u \in Users |-> 0]
    /\ chats = [id \in {"c1"} |-> [NewChat(<<"a", "b">>) EXCEPT !.role["b"] = "moderator"]]
    /\ h = [c \in Conns |-> Idle]
    /\ ops = 0
    /\ delivered = [c \in Conns |-> {}]
    /\ published = <<>>
    /\ commits = <<>>
    /\ joinedAt = [c \in Conns |-> [id \in {} |-> 0]]
    /\ authenticated = [c \in Conns |-> FALSE]

\* authenticateSocket, the middleware chatHandler gives to socket.use: it runs
\* ahead of the handler of every inbound event of the socket, looks the user of
\* the handshake token up and attaches it (the token of a modelled socket
\* decodes to the stored user the socket was handed to chatHandler with)
authenticateSocket(c) == authenticated' = [authenticated EXCEPT ![c] = TRUE]

\* chatHandler(socket, io) and notificationHandler(socket, io) on a new socket:
\* socket.use only registers the middleware
chatHandler(c, u) ==
    /\ conn[c] = "new"
    /\ conn' = [conn EXCEPT ![c] = "live"]
    /\ userOf' = [userOf EXCEPT ![c] = u]
    /\ rooms' = [rooms EXCEPT ![c] = {UserRoom(u), NotificationRoom(u)}]
    /\ isOnline' = [isOnline EXCEPT ![u] = TRUE]
    /\ delivered' = Emit(delivered, SocketBroadcast(c), Event("user_online", ToOthers(c), NoChat, 0, 0, u))
    /\ UNCHANGED <<lastActive, chats, h, ops, published, commits, joinedAt, authenticated>>

\* a disconnect that leaves the socket in its rooms
disconnectKeepsRooms(c) ==
    /\ conn[c] = "live"
    /\ conn' = [conn EXCEPT ![c] = "closed"]
    /\ isOnline' = [isOnline EXCEPT ![userOf[c]] = FALSE]
    /\ lastActive' = [lastActive EXCEPT ![userOf[c]] = @ + 1]
    /\ delivered' = Emit(delivered, SocketBroadcast(c),
                         Event("user_offline", ToOthers(c), NoChat, 0, 0, userOf[c]))
    /\ UNCHANGED <<userOf, rooms, chats, h, ops, published, commits, joinedAt, authenticated>>

\* socket.on('disconnect'): socket.io has already taken the socket out of its rooms
disconnect(c) ==
    /\ conn[c] = "live"
    /\ conn' = [conn EXCEPT ![c] = "closed"]
    /\ rooms' = [rooms EXCEPT ![c] = {}]
    /\ isOnline' = [isOnline EXCEPT ![userOf[c]] = FALSE]
    /\ lastActive' = [lastActive EXCEPT ![userOf[c]] = @ + 1]
    /\ delivered' = Emit(delivered, SocketBroadcast(c),
                         Event("user_offline", ToOthers(c), NoChat, 0, 0, userOf[c]))
    /\ UNCHANGED <<userOf, chats, h, ops, published, commits, joinedAt, authenticated>>

\* ------------------------------------------------- Chat model methods
\* addMessage with unshift in the place of push
addMessageUnshift(doc, m) ==
    [doc EXCEPT !.messages = <<m>> \o @,
                !.lastMessage = [content |-> IF m.content # "" THEN m.content ELSE "text message",
                                 sender |-> m.sender, sentAt |-> m.id],
                !.unreadCounts = [u \in DOMAIN @ |-> IF u # m.sender THEN @[u] + 1 ELSE @[u]]]

\* chatSchema.methods.addMessage, on the caller's copy of the document
addMessage(doc, m) ==
    [doc EXCEPT !.messages = Append(@, m),
                !.lastMessage = [content |-> IF m.content # "" THEN m.content ELSE "text message",
                                 sender |-> m.sender, sentAt |-> m.id],
                !.unreadCounts = [u \in DOMAIN @ |-> IF u # m.sender THEN @[u] + 1 ELSE @[u]]]

\* chatSchema.methods.getUnreadCount: 0 for a user without an entry
getUnreadCount(doc, userId) ==
    IF userId \in DOMAIN doc.unreadCounts THEN doc.unreadCounts[userId] ELSE 0

\* markAsRead without its existingReadReceipt test
MarkMessageAgain(msg, userId) == [msg EXCEPT !.readBy = Append(@, userId)]

\* one message of markAsRead: push a receipt unless the reader has one
MarkMessage(msg, userId) ==
    IF \E i \in DOMAIN msg.readBy : msg.readBy[i] = userId
    THEN msg
    ELSE [msg EXCEPT !.readBy = Append(@, userId)]

\* chatSchema.methods.markAsRead, on the caller's copy; messageId 0 is "omitted"
markAsRead(doc, userId, messageId) ==
    [doc EXCEPT !.messages = [i \in DOMAIN @ |->
                                 IF messageId = 0 \/ @[i].id = messageId
                                 THEN MarkMessage(@[i], userId)
                                 ELSE @[i]],
                !.unreadCounts = [u \in DOMAIN @ |-> IF u = userId THEN 0 ELSE @[u]]]

\* add_reaction without its existingReaction branch
ToggleReactionAddOnly(msg, userId, emoji) ==
    [msg EXCEPT !.reactions = Append(@, [user |-> userId, emoji |-> emoji])]

\* the reaction toggle of add_reaction, on the caller's copy of the message
ToggleReaction(msg, userId, emoji) ==
    LET r == [user |-> userId, emoji |-> emoji]
        existing == {i \in DOMAIN msg.reactions : msg.reactions[i] = r}
    IN  IF existing # {}
        THEN LET first == CHOOSE i \in existing : \A j \in existing : i <= j
             IN  [msg EXCEPT !.reactions =
                     [k \in 1..(Len(@) - 1) |-> IF k < first THEN @[k] ELSE @[k + 1]]]
        ELSE [msg EXCEPT !.reactions = Append(@, r)]

\* the update of edit_message, on the caller's copy of the message
EditMessage(msg, newContent) ==
    [msg EXCEPT !.originalContent = msg.content, !.content = newContent, !.isEdited = TRUE]

\* chat.messages.pull(messageId)
PullMessage(msgs, mid) == SelectSeq(msgs, LAMBDA m : m.id # mid)

\* ---------------------------------------------------------- chat.save()
\* a save that never checks the version
VersionUnchecked(doc, r) == TRUE

\* The version check of the save: only deltas that address an array element
\* by its position carry it.
VersionOk(doc, r) == ~r.where \/ doc.v = r.v

\* The stored document after the delta of handler r has been applied.
\* Deltas that passed the version check find the arrays as they were loaded.
ApplyDelta(doc, r) ==
    LET at == MessageIndex(doc, r.mid)
        d == CASE r.kind = "lastSeen" ->
                    [doc EXCEPT !.lastSeen[r.user] = r.id]
               [] r.kind = "push" ->
                    LET local == addMessage(doc, Message(r.id, r.user, r.content, r.voiceNote))
                    IN  [doc EXCEPT !.messages = local.messages,
                                    !.lastMessage = local.lastMessage,
                                    !.unreadCounts = [u \in DOMAIN @ |->
                                        IF u \in DOMAIN r.unread THEN r.unread[u] ELSE @[u]]]
               [] r.kind = "read" ->
                    [doc EXCEPT !.messages = [i \in DOMAIN @ |->
                                    IF @[i].id \in r.mids
                                    THEN [@[i] EXCEPT !.readBy = Append(@, r.user)]
                                    ELSE @[i]],
                                !.unreadCounts = [u \in DOMAIN @ |->
                                    IF u \in DOMAIN r.unread THEN r.unread[u] ELSE @[u]]]
               [] r.kind = "react" ->
                    [doc EXCEPT !.messages[at] = ToggleReaction(@, r.user, r.emoji)]
               [] r.kind = "edit" ->
                    [doc EXCEPT !.messages[at] =
                        [@ EXCEPT !.originalContent = r.original, !.content = r.content,
                                  !.isEdited = TRUE]]
               [] r.kind = "pull" ->
                    [doc EXCEPT !.messages = PullMessage(@, r.mid)]
               [] OTHER -> doc
    IN  [d EXCEPT !.v = IF r.inc THEN @ + 1 ELSE @]

\* what the commit log keeps of a save
Commit(r) == [op |-> r.id, kind |-> r.kind, chat |-> r.chat, mid |-> r.mid, mids |-> r.mids,
              emoji |-> r.emoji, by |-> r.user]

\* the store answers the save of the handler of c
save(c) ==
    /\ h[c].pc = "save"
    /\ IF VersionOk(chats[h[c].chat], h[c])
       THEN /\ chats' = [chats EXCEPT ![h[c].chat] = ApplyDelta(@, h[c])]
            /\ commits' = IF h[c].kind = "none" THEN commits ELSE Append(commits, Commit(h[c]))
            /\ h' = [h EXCEPT ![c].pc = "saved"]
       ELSE /\ h' = [h EXCEPT ![c].pc = "failed"]
            /\ UNCHANGED <<chats, commits>>
    /\ UNCHANGED <<conn, userOf, rooms, isOnline, lastActive, ops, delivered, published, joinedAt,
                   authenticated>>

\* ------------------------------------------------------ chatHandler.js
\* the early return with io.emit in the place of socket.emit
RejectToEveryone(c, what) ==
    /\ delivered' = Emit(delivered, IoEmit, Error(c, what, ops + 1))
    /\ ops' = ops + 1
    /\ authenticateSocket(c)
    /\ UNCHANGED <<conn, userOf, rooms, isOnline, lastActive, chats, h, published, commits, joinedAt>>

\* an early `return socket.emit('error', ...)` of the handler of event ops + 1
Reject(c, what) ==
    /\ delivered' = Emit(delivered, SocketEmit(c), Error(c, what, ops + 1))
    /\ ops' = ops + 1
    /\ authenticateSocket(c)
    /\ UNCHANGED <<conn, userOf, rooms, isOnline, lastActive, chats, h, published, commits, joinedAt>>

\* the handler of c goes to its `await chat.save()` with delta r
AwaitSave(c, r) ==
    /\ h' = [h EXCEPT ![c] = [r EXCEPT !.pc = "save", !.id = ops + 1, !.user = userOf[c]]]
    /\ ops' = ops + 1
    /\ authenticateSocket(c)

\* the handler of c ends emitting e to the audience
Finish(c, audience, e) ==
    /\ delivered' = Emit(delivered, audience, e)
    /\ published' = IF e.ev \in LedgerEvents THEN Append(published, e) ELSE published
    /\ h' = [h EXCEPT ![c] = Idle]
    /\ UNCHANGED <<conn, userOf, rooms, isOnline, lastActive, chats, ops, commits, joinedAt,
                   authenticated>>

\* socket.on('join_chat'), to its await chat.save()
join_chat(c, id) ==
    /\ Ready(c)
    /\ IF id \notin DOMAIN chats
       THEN Reject(c, "Chat not found")
       ELSE IF ~isParticipant(chats[id], userOf[c])
       THEN Reject(c, "Not authorized to join this chat")
       ELSE /\ rooms' = [rooms EXCEPT ![c] = @ \cup {ChatRoom(id)}]
            /\ AwaitSave(c, [Idle EXCEPT !.op = "join_chat", !.chat = id, !.v = chats[id].v,
                                         !.where = TRUE, !.kind = "lastSeen"])
            /\ joinedAt' = [joinedAt EXCEPT ![c] =
                               IF ChatRoom(id) \in rooms[c] THEN @
                               ELSE [k \in DOMAIN @ \cup {id} |-> IF k = id THEN Len(commits) ELSE @[k]]]
            /\ UNCHANGED <<conn, userOf, isOnline, lastActive, chats, delivered, published, commits>>

\* socket.on('join_chat'), after its await chat.save()
join_chat_saved(c) ==
    /\ h[c].op = "join_chat"
    /\ h[c].pc \in {"saved", "failed"}
    /\ IF h[c].pc = "saved"
       THEN Finish(c, SocketEmit(c), Event("joined_chat", ToSocket(c), h[c].chat, 0, h[c].id, h[c].user))
       ELSE Finish(c, SocketEmit(c), Error(c, "Error joining chat", h[c].id))

\* leave_chat leaving every room of the socket
leave_chatEveryRoom(c, id) ==
    /\ Ready(c)
    /\ rooms' = [rooms EXCEPT ![c] = {}]
    /\ delivered' = Emit(delivered, SocketEmit(c), Event("left_chat", ToSocket(c), id, 0, ops + 1, userOf[c]))
    /\ ops' = ops + 1
    /\ authenticateSocket(c)
    /\ UNCHANGED <<conn, userOf, isOnline, lastActive, chats, h, published, commits, joinedAt>>

\* socket.on('leave_chat')
leave_chat(c, id) ==
    /\ Ready(c)
    /\ rooms' = [rooms EXCEPT ![c] = @ \ {ChatRoom(id)}]
    /\ delivered' = Emit(delivered, SocketEmit(c), Event("left_chat", ToSocket(c), id, 0, ops + 1, userOf[c]))
    /\ ops' = ops + 1
    /\ authenticateSocket(c)
    /\ UNCHANGED <<conn, userOf, isOnline, lastActive, chats, h, published, commits, joinedAt>>

\* socket.on('send_message'), to the save of chat.addMessage: the save validates
\* the document first and sends nothing to the store when a validator objects
send_message(c, id, content, voiceNote) ==
    /\ Ready(c)
    /\ IF id \notin DOMAIN chats
       THEN Reject(c, "Chat not found")
       ELSE IF ~isParticipant(chats[id], userOf[c])
       THEN Reject(c, "Not authorized to send messages")
       ELSE LET local == addMessage(chats[id], Message(ops + 1, userOf[c], content, voiceNote))
                changed == {u \in DOMAIN local.unreadCounts :
                                local.unreadCounts[u] # chats[id].unreadCounts[u]}
                r == [Idle EXCEPT !.op = "send_message", !.chat = id,
                                  !.v = chats[id].v, !.inc = TRUE, !.kind = "push",
                                  !.mid = ops + 1, !.content = content, !.voiceNote = voiceNote,
                                  !.unread = [u \in changed |-> local.unreadCounts[u]]]
            IN  /\ \E required \in ContentRequired(voiceNote) :
                      IF required /\ content = ""
                      THEN /\ h' = [h EXCEPT ![c] = [r EXCEPT !.pc = "failed", !.id = ops + 1,
                                                               !.user = userOf[c]]]
                           /\ ops' = ops + 1
                           /\ authenticateSocket(c)
                      ELSE AwaitSave(c, r)
                /\ UNCHANGED <<conn, userOf, rooms, isOnline, lastActive, chats, delivered, published, commits, joinedAt>>

\* the participants the push-notification loop of send_message visits
OtherParticipants(doc, u) == SelectSeq(doc.participants, LAMBDA p : p # u)

\* socket.on('send_message'), after await chat.addMessage and await chat.populate:
\* the broadcast to the chat's room, then the first await User.findById of the loop
send_message_saved(c) ==
    /\ h[c].op = "send_message"
    /\ h[c].pc \in {"saved", "failed"}
    /\ IF h[c].pc = "saved"
       THEN /\ delivered' = Emit(delivered, IoTo(ChatRoom(h[c].chat)),
                                 Event("new_message", ChatRoom(h[c].chat), h[c].chat, h[c].mid, h[c].id, h[c].user))
            /\ published' = Append(published, Event("new_message", ChatRoom(h[c].chat), h[c].chat,
                                                    h[c].mid, h[c].id, h[c].user))
            /\ LET others == OtherParticipants(chats[h[c].chat], h[c].user)
               IN  h' = [h EXCEPT ![c] = IF others = <<>> THEN Idle
                                         ELSE [@ EXCEPT !.pc = "notify", !.todo = others]]
            /\ UNCHANGED <<conn, userOf, rooms, isOnline, lastActive, chats, ops, commits, joinedAt,
                           authenticated>>
       ELSE Finish(c, SocketEmit(c), Error(c, "Error sending message", h[c].id))

\* socket.on('send_message'), one turn of the loop after await User.findById
send_message_notify(c) ==
    /\ h[c].op = "send_message"
    /\ h[c].pc = "notify"
    /\ LET u == Head(h[c].todo)
       IN  delivered' = IF ~isOnline[u] /\ pushPreference[u]
                        THEN Emit(delivered, IoTo(UserRoom(u)),
                                  Event("notification", UserRoom(u), h[c].chat, h[c].mid, h[c].id, h[c].user))
                        ELSE delivered
    /\ h' = [h EXCEPT ![c] = IF Tail(@.todo) = <<>> THEN Idle ELSE [@ EXCEPT !.todo = Tail(@)]]
    /\ UNCHANGED <<conn, userOf, rooms, isOnline, lastActive, chats, ops, published, commits, joinedAt,
                   authenticated>>

\* socket.on('mark_as_read'), to the save of chat.markAsRead; messageId 0: none given
mark_as_read(c, id, messageId) ==
    /\ Ready(c)
    /\ IF id \notin DOMAIN chats
       THEN Reject(c, "Chat not found")
       ELSE LET doc == chats[id]
                local == markAsRead(doc, userOf[c], messageId)
                marked == {doc.messages[i].id : i \in {j \in DOMAIN doc.messages :
                                local.messages[j] # doc.messages[j]}}
                reset == {u \in DOMAIN doc.unreadCounts :
                                local.unreadCounts[u] # doc.unreadCounts[u]}
            IN  /\ AwaitSave(c, [Idle EXCEPT !.op = "mark_as_read", !.chat = id, !.v = doc.v,
                                             !.where = (marked # {} \/ reset # {}),
                                             !.inc = (marked # {}),
                                             !.kind = IF marked # {} \/ reset # {}
                                                      THEN "read" ELSE "none",
                                             !.mid = messageId, !.mids = marked,
                                             !.unread = [u \in reset |-> 0]])
                /\ UNCHANGED <<conn, userOf, rooms, isOnline, lastActive, chats, delivered, published, commits, joinedAt>>

\* socket.on('mark_as_read'), after await chat.markAsRead
mark_as_read_saved(c) ==
    /\ h[c].op = "mark_as_read"
    /\ h[c].pc \in {"saved", "failed"}
    /\ IF h[c].pc = "saved"
       THEN Finish(c, SocketTo(c, ChatRoom(h[c].chat)),
                   Event("message_read", ChatRoom(h[c].chat), h[c].chat, h[c].mid, h[c].id, h[c].user))
       ELSE Finish(c, SocketEmit(c), Error(c, "Error marking message as read", h[c].id))

\* socket.on('add_reaction'), to its await chat.save()
add_reaction(c, id, messageId, emoji) ==
    /\ Ready(c)
    /\ IF id \notin DOMAIN chats
       THEN Reject(c, "Chat not found")
       ELSE IF MessageIndex(chats[id], messageId) = 0
       THEN Reject(c, "Message not found")
       ELSE /\ AwaitSave(c, [Idle EXCEPT !.op = "add_reaction", !.chat = id, !.v = chats[id].v,
                                         !.where = TRUE, !.inc = TRUE, !.kind = "react",
                                         !.mid = messageId, !.emoji = emoji])
            /\ UNCHANGED <<conn, userOf, rooms, isOnline, lastActive, chats, delivered, published, commits, joinedAt>>

\* socket.on('add_reaction'), after its await chat.save()
add_reaction_saved(c) ==
    /\ h[c].op = "add_reaction"
    /\ h[c].pc \in {"saved", "failed"}
    /\ IF h[c].pc = "saved"
       THEN Finish(c, IoTo(ChatRoom(h[c].chat)),
                   Event("reaction_updated", ChatRoom(h[c].chat), h[c].chat, h[c].mid, h[c].id, h[c].user))
       ELSE Finish(c, SocketEmit(c), Error(c, "Error adding reaction", h[c].id))

\* edit_message without its ownership test
MayEditAnyone(msg, u) == TRUE

\* "Check if user owns the message" of edit_message
MayEdit(msg, u) == msg.sender = u

\* socket.on('edit_message'), to its await chat.save()
edit_message(c, id, messageId, newContent) ==
    /\ Ready(c)
    /\ IF id \notin DOMAIN chats
       THEN Reject(c, "Chat not found")
       ELSE IF MessageIndex(chats[id], messageId) = 0
       THEN Reject(c, "Message not found")
       ELSE IF ~MayEdit(chats[id].messages[MessageIndex(chats[id], messageId)], userOf[c])
       THEN Reject(c, "Not authorized to edit this message")
       ELSE LET local == EditMessage(chats[id].messages[MessageIndex(chats[id], messageId)],
                                     newContent)
            IN  /\ AwaitSave(c, [Idle EXCEPT !.op = "edit_message", !.chat = id,
                                             !.v = chats[id].v, !.where = TRUE, !.kind = "edit",
                                             !.mid = messageId, !.content = local.content,
                                             !.original = local.originalContent])
                /\ UNCHANGED <<conn, userOf, rooms, isOnline, lastActive, chats, delivered, published, commits, joinedAt>>

\* edit_message broadcasting with socket.to in the place of io.to
edit_message_saved_to_others(c) ==
    /\ h[c].op = "edit_message"
    /\ h[c].pc \in {"saved", "failed"}
    /\ IF h[c].pc = "saved"
       THEN Finish(c, SocketTo(c, ChatRoom(h[c].chat)),
                   Event("message_edited", ChatRoom(h[c].chat), h[c].chat, h[c].mid, h[c].id, h[c].user))
       ELSE Finish(c, SocketEmit(c), Error(c, "Error editing message", h[c].id))

\* socket.on('edit_message'), after its await chat.save()
edit_message_saved(c) ==
    /\ h[c].op = "edit_message"
    /\ h[c].pc \in {"saved", "failed"}
    /\ IF h[c].pc = "saved"
       THEN Finish(c, IoTo(ChatRoom(h[c].chat)),
                   Event("message_edited", ChatRoom(h[c].chat), h[c].chat, h[c].mid, h[c].id, h[c].user))
       ELSE Finish(c, SocketEmit(c), Error(c, "Error editing message", h[c].id))

\* the owner-or-admin check of delete_message
MayDelete(msg, u) == msg.sender = u \/ role[u] = "admin"

\* socket.on('delete_message'), to its await chat.save()
delete_message(c, id, messageId) ==
    /\ Ready(c)
    /\ IF id \notin DOMAIN chats
       THEN Reject(c, "Chat not found")
       ELSE IF MessageIndex(chats[id], messageId) = 0
       THEN Reject(c, "Message not found")
       ELSE IF ~MayDelete(chats[id].messages[MessageIndex(chats[id], messageId)], userOf[c])
       THEN Reject(c, "Not authorized to delete this message")
       ELSE /\ AwaitSave(c, [Idle EXCEPT !.op = "delete_message", !.chat = id,
                                         !.v = chats[id].v, !.inc = TRUE, !.kind = "pull",
                                         !.mid = messageId])
            /\ UNCHANGED <<conn, userOf, rooms, isOnline, lastActive, chats, delivered, published, commits, joinedAt>>

\* socket.on('delete_message'), after its await chat.save()
delete_message_saved(c) ==
    /\ h[c].op = "delete_message"
    /\ h[c].pc \in {"saved", "failed"}
    /\ IF h[c].pc = "saved"
       THEN Finish(c, IoTo(ChatRoom(h[c].chat)),
                   Event("message_deleted", ChatRoom(h[c].chat), h[c].chat, h[c].mid, h[c].id, h[c].user))
       ELSE Finish(c, SocketEmit(c), Error(c, "Error deleting message", h[c].id))

\* ---------------------------------------------- notificationHandler.js
NoLocation == "none"
NoCategory == "none"
\* categories of the resource schema
ResourceCategories == Categories \cup {"food"}

\* socket.on('subscribe_location_alerts'): the room is joined before the await of
\* NeedForecast.getCriticalNeedsAlerts, whose answer is the collaborator's:
\* no forecast, some forecasts, or a failure
subscribe_location_alerts(c, xy, forecasts) ==
    /\ Ready(c)
    /\ rooms' = [rooms EXCEPT ![c] = @ \cup {LocationRoom(xy)}]
    /\ delivered' = CASE forecasts = "some" ->
                           Emit(delivered, SocketEmit(c),
                                Event("critical_needs_alert", ToSocket(c), NoChat, 0, ops + 1, userOf[c]))
                      [] forecasts = "failure" ->
                           Emit(delivered, SocketEmit(c),
                                Error(c, "Error subscribing to location alerts", ops + 1))
                      [] OTHER -> delivered
    /\ ops' = ops + 1
    /\ authenticateSocket(c)
    /\ UNCHANGED <<conn, userOf, isOnline, lastActive, chats, h, published, commits, joinedAt>>

\* subscribe_resource_alerts leaving the rooms the socket is already in
subscribe_resource_alertsToggle(c, categories) ==
    /\ Ready(c)
    /\ rooms' = [rooms EXCEPT ![c] =
                    (@ \ {ResourceRoom(cat) : cat \in categories})
                    \cup ({ResourceRoom(cat) : cat \in categories} \ @)]
    /\ delivered' = Emit(delivered, SocketEmit(c),
                         Event("subscribed_resource_alerts", ToSocket(c), NoChat, 0, ops + 1, userOf[c]))
    /\ ops' = ops + 1
    /\ authenticateSocket(c)
    /\ UNCHANGED <<conn, userOf, isOnline, lastActive, chats, h, published, commits, joinedAt>>

\* socket.on('subscribe_resource_alerts')
subscribe_resource_alerts(c, categories) ==
    /\ Ready(c)
    /\ rooms' = [rooms EXCEPT ![c] = @ \cup {ResourceRoom(cat) : cat \in categories}]
    /\ delivered' = Emit(delivered, SocketEmit(c),
                         Event("subscribed_resource_alerts", ToSocket(c), NoChat, 0, ops + 1, userOf[c]))
    /\ ops' = ops + 1
    /\ authenticateSocket(c)
    /\ UNCHANGED <<conn, userOf, isOnline, lastActive, chats, h, published, commits, joinedAt>>

\* socket.on('subscribe_resource_alerts') with a payload that has no categories:
\* categories.forEach throws out of the listener, which has no try/catch, and
\* nothing is emitted. The exception is the process's to deal with: the process
\* ends, and every socket and running handler with it, or it goes on.
subscribe_resource_alerts_malformed(c) ==
    /\ Ready(c)
    /\ \E outcome \in {"exit", "goes on"} :
          IF outcome = "exit"
          THEN /\ conn' = [k \in Conns |-> IF conn[k] = "live" THEN "closed" ELSE conn[k]]
               /\ rooms' = [k \in Conns |-> {}]
               /\ h' = [k \in Conns |-> Idle]
          ELSE UNCHANGED <<conn, rooms, h>>
    /\ ops' = ops + 1
    /\ authenticateSocket(c)
    /\ UNCHANGED <<userOf, isOnline, lastActive, chats, delivered, published, commits, joinedAt>>

\* send_emergency_alert without its authorization test
MayAlertAnyone(u) == TRUE

\* "Only admins and verified users can send emergency alerts"
MayAlert(u) == role[u] = "admin" \/ isVerified[u]

\* the three broadcasts of send_emergency_alert, in the order of the code
EmergencyBroadcast(d, xy, urgency, category, op, u) ==
    LET d1 == IF xy # NoLocation
              THEN Emit(d, IoTo(LocationRoom(xy)),
                        Event("emergency_alert", LocationRoom(xy), NoChat, 0, op, u))
              ELSE d
        d2 == IF category # NoCategory
              THEN Emit(d1, IoTo(ResourceRoom(category)),
                        Event("emergency_alert", ResourceRoom(category), NoChat, 0, op, u))
              ELSE d1
    IN  IF urgency = "critical"
        THEN Emit(d2, IoEmit, Event("critical_emergency_alert", ToAll, NoChat, 0, op, u))
        ELSE d2

\* socket.on('send_emergency_alert')
send_emergency_alert(c, xy, urgency, category) ==
    /\ Ready(c)
    /\ IF ~MayAlert(userOf[c])
       THEN Reject(c, "Not authorized to send emergency alerts")
       ELSE /\ delivered' = EmergencyBroadcast(delivered, xy, urgency, category, ops + 1, userOf[c])
            /\ ops' = ops + 1
            /\ authenticateSocket(c)
            /\ UNCHANGED <<conn, userOf, rooms, isOnline, lastActive, chats, h, published, commits, joinedAt>>

\* ai_need_prediction without its role test
MayPredictAnyone(u) == TRUE

\* "Only admin or AI system can send predictions"
MayPredict(u) == role[u] = "admin"

\* the two broadcasts of ai_need_prediction, in the order of the code
PredictionBroadcast(d, xy, category, op, u) ==
    LET d1 == IF xy # NoLocation
              THEN Emit(d, IoTo(LocationRoom(xy)),
                        Event("ai_prediction_alert", LocationRoom(xy), NoChat, 0, op, u))
              ELSE d
    IN  Emit(d1, IoTo(ResourceRoom(category)),
             Event("ai_prediction_alert", ResourceRoom(category), NoChat, 0, op, u))

\* socket.on('ai_need_prediction')
ai_need_prediction(c, xy, category) ==
    /\ Ready(c)
    /\ IF ~MayPredict(userOf[c])
       THEN Reject(c, "Not authorized")
       ELSE /\ delivered' = PredictionBroadcast(delivered, xy, category, ops + 1, userOf[c])
            /\ ops' = ops + 1
            /\ authenticateSocket(c)
            /\ UNCHANGED <<conn, userOf, rooms, isOnline, lastActive, chats, h, published, commits, joinedAt>>

\* Resource documents (resourceSchema): owner, category, interestedUsers;
\* the socket handlers only read them
Resources ==
    [rid \in {"r1", "r2", "r3"} |->
        CASE rid = "r1" -> [owner |-> "b", category |-> "medical", interestedUsers |-> <<"a">>]
          [] rid = "r2" -> [owner |-> "c", category |-> "food", interestedUsers |-> <<"a", "b">>]
          [] OTHER -> [owner |-> "a", category |-> "medical", interestedUsers |-> <<>>]]
\* the resource ids a client can name; "r0" is no resource
ResourceIds == DOMAIN Resources \cup {"r0"}

\* notify_resource_available without its owner test
MayNotifyAnyone(res, u) == TRUE

\* "Check if user owns the resource"
MayNotify(res, u) == res.owner = u

\* the emits to the interested users' inboxes, in the order of the array
RECURSIVE NotifyInterested(_, _, _, _)
NotifyInterested(d, interested, op, u) ==
    IF interested = <<>>
    THEN d
    ELSE NotifyInterested(Emit(d, IoTo(NotificationRoom(Head(interested))),
                               Event("resource_notification", NotificationRoom(Head(interested)),
                                     NoChat, 0, op, u)),
                          Tail(interested), op, u)

\* socket.on('notify_resource_available')
notify_resource_available(c, rid) ==
    /\ Ready(c)
    /\ IF rid \notin DOMAIN Resources
       THEN Reject(c, "Resource not found")
       ELSE IF ~MayNotify(Resources[rid], userOf[c])
       THEN Reject(c, "Not authorized")
       ELSE /\ delivered' =
                  NotifyInterested(
                      Emit(delivered, IoTo(ResourceRoom(Resources[rid].category)),
                           Event("resource_notification", ResourceRoom(Resources[rid].category),
                                 NoChat, 0, ops + 1, userOf[c])),
                      Resources[rid].interestedUsers, ops + 1, userOf[c])
            /\ ops' = ops + 1
            /\ authenticateSocket(c)
            /\ UNCHANGED <<conn, userOf, rooms, isOnline, lastActive, chats, h, published, commits, joinedAt>>

\* the milestones a client names
Milestones == {"10 meals", "100 meals"}

\* milestone.includes('100') || milestone.includes('500') || milestone.includes('1000')
Significant(milestone) == milestone \in {"100 meals"}

\* socket.on('celebrate_impact_milestone')
celebrate_impact_milestone(c, milestone) ==
    /\ Ready(c)
    /\ LET d1 == Emit(delivered, SocketEmit(c),
                      Event("impact_milestone", ToSocket(c), NoChat, 0, ops + 1, userOf[c]))
       IN  delivered' = IF Significant(milestone)
                        THEN Emit(d1, SocketBroadcast(c),
                                  Event("community_milestone", ToOthers(c), NoChat, 0, ops + 1,
                                        userOf[c]))
                        ELSE d1
    /\ ops' = ops + 1
    /\ authenticateSocket(c)
    /\ UNCHANGED <<conn, userOf, rooms, isOnline, lastActive, chats, h, published, commits, joinedAt>>

\* socket.on('start_typing')
start_typing(c, id) ==
    /\ Ready(c)
    /\ delivered' = Emit(delivered, SocketTo(c, ChatRoom(id)),
                         Event("user_typing", ChatRoom(id), id, 0, ops + 1, userOf[c]))
    /\ ops' = ops + 1
    /\ authenticateSocket(c)
    /\ UNCHANGED <<conn, userOf, rooms, isOnline, lastActive, chats, h, published, commits, joinedAt>>

\* socket.on('stop_typing')
stop_typing(c, id) ==
    /\ Ready(c)
    /\ delivered' = Emit(delivered, SocketTo(c, ChatRoom(id)),
                         Event("user_stopped_typing", ChatRoom(id), id, 0, ops + 1, userOf[c]))
    /\ ops' = ops + 1
    /\ authenticateSocket(c)
    /\ UNCHANGED <<conn, userOf, rooms, isOnline, lastActive, chats, h, published, commits, joinedAt>>

\* the challenges of the store: creator only
Challenges == [ch \in {"ch1", "ch2"} |-> [creator |-> IF ch = "ch1" THEN "b" ELSE "a"]]

\* invitedUsers.forEach(userId => io.to(`notifications:${userId}`).emit('challenge_invitation', ...))
RECURSIVE InviteEach(_, _, _, _)
InviteEach(d, invited, op, u) ==
    IF invited = <<>>
    THEN d
    ELSE InviteEach(Emit(d, IoTo(NotificationRoom(Head(invited))),
                         Event("challenge_invitation", NotificationRoom(Head(invited)),
                               NoChat, 0, op, u)),
                    Tail(invited), op, u)

\* socket.on('send_challenge_invitation')
send_challenge_invitation(c, challengeId, invitedUsers) ==
    /\ Ready(c)
    /\ IF challengeId \notin DOMAIN Challenges
       THEN Reject(c, "Challenge not found")
       ELSE IF Challenges[challengeId].creator # userOf[c]
       THEN Reject(c, "Not authorized")
       ELSE /\ delivered' = InviteEach(delivered, invitedUsers, ops + 1, userOf[c])
            /\ ops' = ops + 1
            /\ authenticateSocket(c)
            /\ UNCHANGED <<conn, userOf, rooms, isOnline, lastActive, chats, h, published, commits, joinedAt>>

\* socket.on('nominate_local_hero'): the heroReviews the update adds to the
\* nominated user are no state of this model
nominate_local_hero(c, nominatedUserId) ==
    /\ Ready(c)
    /\ delivered' = Emit(delivered, IoTo(NotificationRoom(nominatedUserId)),
                         Event("hero_nomination", NotificationRoom(nominatedUserId),
                               NoChat, 0, ops + 1, userOf[c]))
    /\ ops' = ops + 1
    /\ authenticateSocket(c)
    /\ UNCHANGED <<conn, userOf, rooms, isOnline, lastActive, chats, h, published, commits, joinedAt>>

\* the coordinate pairs [x, y] a client sends
CoordinatePairs == {<<1, 11>>, <<11, 1>>, <<-1, 1>>}

\* the decimal digits of a natural number, as `${n}` writes them
RECURSIVE Digits(_)
Digits(n) ==
    LET digit == <<"0", "1", "2", "3", "4", "5", "6", "7", "8", "9">>[(n % 10) + 1]
    IN  IF n < 10 THEN <<digit>> ELSE Digits(n \div 10) \o <<digit>>

\* `${n}` of an integer
NumberToString(n) == IF n < 0 THEN <<"-">> \o Digits(0 - n) ELSE Digits(n)

\* the room key with nothing between the two coordinates
LocationKeyUnseparated(coordinates) ==
    NumberToString(coordinates[1]) \o NumberToString(coordinates[2])

\* `${coordinates[0]}-${coordinates[1]}`
LocationKey(coordinates) ==
    NumberToString(coordinates[1]) \o <<"-">> \o NumberToString(coordinates[2])

\* ------------------------------------------------------- specifications
\* message ids a client can name: 0 (none) and the ids of the messages the
\* store has held (an id is made by the server and shown only after the save)
MessageIds == {0} \cup {commits[i].mid : i \in {j \in DOMAIN commits : commits[j].kind = "push"}}

\* two sockets connect; the third does where an identity needs two devices
\* beside the socket of another identity: two devices of a, one of b
Connect == \E c \in {"k1", "k2"} : \E u \in Tokens[c] : chatHandler(c, u)
ConnectThree == \E c \in Conns : chatHandler(c, IF c = "k3" THEN "b" ELSE "a")
Disconnect == \E c \in Conns : disconnect(c)
Save == \E c \in Conns : save(c)
Join ==
    \/ \E c \in Conns, id \in ChatIds : join_chat(c, id)
    \/ \E c \in Conns : join_chat_saved(c)
Leave == \E c \in Conns, id \in ChatIds : leave_chat(c, id)
Send ==
    \/ \E c \in Conns, id \in ChatIds, content \in Contents : send_message(c, id, content, FALSE)
    \/ \E c \in Conns : send_message_saved(c)
    \/ \E c \in Conns : send_message_notify(c)
Read ==
    \/ \E c \in Conns, id \in ChatIds, m \in MessageIds : mark_as_read(c, id, m)
    \/ \E c \in Conns : mark_as_read_saved(c)
React ==
    \/ \E c \in Conns, id \in ChatIds, m \in MessageIds, e \in Emojis : add_reaction(c, id, m, e)
    \/ \E c \in Conns : add_reaction_saved(c)
Edit ==
    \/ \E c \in Conns, id \in ChatIds, m \in MessageIds, t \in NewContents : edit_message(c, id, m, t)
    \/ \E c \in Conns : edit_message_saved(c)
Delete ==
    \/ \E c \in Conns, id \in ChatIds, m \in MessageIds : delete_message(c, id, m)
    \/ \E c \in Conns : delete_message_saved(c)
Subscribe ==
    \/ \E c \in Conns, xy \in Coordinates, f \in {"none", "some", "failure"} :
            subscribe_location_alerts(c, xy, f)
    \/ \E c \in Conns, cats \in SUBSET Categories : subscribe_resource_alerts(c, cats)
Alert ==
    \E c \in Conns, xy \in Coordinates \cup {NoLocation}, u \in Urgencies,
       cat \in Categories \cup {NoCategory} : send_emergency_alert(c, xy, u, cat)

\* the whole server
Next ==
    \/ Connect \/ Disconnect \/ Save
    \/ Join \/ Leave \/ Send \/ Read
    \/ React \/ Edit \/ Delete
    \/ Subscribe \/ Alert
Spec == Init /\ [][Next]_vars

\* the chat handlers
ChatNext ==
    \/ Connect \/ Disconnect \/ Save
    \/ Join \/ Leave \/ Send \/ Read
    \/ React \/ Edit \/ Delete
ChatSpec == Init /\ [][ChatNext]_vars

\* subscription to the room of a stored chat and the events of its messages
LedgerNext ==
    \/ Connect \/ Save
    \/ \E c \in {"k2"} : disconnect(c)
    \/ \E c \in Conns, id \in DOMAIN chats : join_chat(c, id)
    \/ \E c \in Conns : join_chat_saved(c)
    \/ \E c \in Conns, id \in DOMAIN chats : leave_chat(c, id)
    \/ \E c \in Conns, id \in DOMAIN chats, content \in Contents :
            send_message(c, id, content, FALSE)
    \/ \E c \in Conns : send_message_saved(c)
    \/ \E c \in Conns : send_message_notify(c)
    \/ \E c \in Conns, id \in DOMAIN chats, m \in MessageIds, t \in NewContents :
            edit_message(c, id, m, t)
    \/ \E c \in Conns : edit_message_saved(c)
    \/ \E c \in Conns, id \in DOMAIN chats, m \in MessageIds : delete_message(c, id, m)
    \/ \E c \in Conns : delete_message_saved(c)
LedgerSpec == Init /\ [][LedgerNext]_vars

\* the join gate
JoinNext ==
    \/ Connect \/ Disconnect \/ Save \/ Join
    \/ \E c \in Conns, id \in DOMAIN chats : leave_chat(c, id)
    \/ \E c \in Conns, id \in DOMAIN chats, content \in Contents :
            send_message(c, id, content, FALSE)
    \/ \E c \in Conns : send_message_saved(c)
    \/ \E c \in Conns : send_message_notify(c)
JoinSpec == Init /\ [][JoinNext]_vars

\* the mutations of a ledger
OverlayNext ==
    \/ Connect \/ Save
    \/ \E c \in Conns, id \in DOMAIN chats, content \in Contents :
            send_message(c, id, content, FALSE)
    \/ \E c \in Conns : send_message_saved(c)
    \/ \E c \in Conns : send_message_notify(c)
    \/ \E c \in Conns, id \in DOMAIN chats, m \in MessageIds : mark_as_read(c, id, m)
    \/ \E c \in Conns : mark_as_read_saved(c)
    \/ \E c \in Conns, id \in DOMAIN chats, m \in MessageIds, e \in Emojis :
            add_reaction(c, id, m, e)
    \/ \E c \in Conns : add_reaction_saved(c)
    \/ \E c \in Conns, id \in DOMAIN chats, m \in MessageIds, t \in NewContents :
            edit_message(c, id, m, t)
    \/ \E c \in Conns : edit_message_saved(c)
    \/ \E c \in Conns, id \in DOMAIN chats, m \in MessageIds : delete_message(c, id, m)
    \/ \E c \in Conns : delete_message_saved(c)
OverlaySpec == Init /\ [][OverlayNext]_vars

\* concurrent appends
AppendNext == Connect \/ Save \/ Send
AppendSpec == Init /\ [][AppendNext]_vars

\* read receipts against concurrent appends
ReadNext == Connect \/ Save \/ Send \/ Read
ReadSpec == Init /\ [][ReadNext]_vars

\* read receipts and the chat rooms
ReceiptNext == Connect \/ Save \/ Join \/ Leave \/ Read
ReceiptSpec == Init /\ [][ReceiptNext]_vars

\* reactions against concurrent appends
ReactNext == Connect \/ Save \/ Send \/ React
ReactSpec == Init /\ [][ReactNext]_vars

\* the prediction dispatch
Predict ==
    \E c \in Conns, xy \in Coordinates \cup {NoLocation}, cat \in ResourceCategories :
        ai_need_prediction(c, xy, cat)
PredictionNext ==
    \/ Connect \/ Disconnect
    \/ \E c \in Conns, xy \in Coordinates : subscribe_location_alerts(c, xy, "none")
    \/ \E c \in Conns, cat \in ResourceCategories : subscribe_resource_alerts(c, {cat})
    \/ Predict
PredictionSpec == Init /\ [][PredictionNext]_vars

\* the resource notifications
Notify == \E c \in Conns, rid \in ResourceIds : notify_resource_available(c, rid)
ResourceNext ==
    \/ Connect \/ Disconnect
    \/ \E c \in Conns, cat \in ResourceCategories : subscribe_resource_alerts(c, {cat})
    \/ Notify
ResourceSpec == Init /\ [][ResourceNext]_vars

\* the milestone celebrations
Celebrate == \E c \in Conns, m \in Milestones : celebrate_impact_milestone(c, m)
MilestoneNext == Connect \/ Disconnect \/ Celebrate
MilestoneSpec == Init /\ [][MilestoneNext]_vars

\* the alert dispatch
AlertNext ==
    \/ Connect \/ Disconnect
    \/ \E c \in Conns, xy \in Coordinates : subscribe_location_alerts(c, xy, "none")
    \/ \E c \in Conns, cats \in SUBSET Categories : subscribe_resource_alerts(c, cats)
    \/ Alert
AlertSpec == Init /\ [][AlertNext]_vars

\* send_message with every payload: text, a voice note, both, neither
PayloadNext ==
    \/ Connect \/ Save
    \/ \E c \in Conns, id \in ChatIds, content \in Contents \cup {""}, voiceNote \in BOOLEAN :
            send_message(c, id, content, voiceNote)
    \/ \E c \in Conns : send_message_saved(c)
    \/ \E c \in Conns : send_message_notify(c)
PayloadSpec == Init /\ [][PayloadNext]_vars

\* sockets that subscribe, receive and go
ReleaseNext ==
    \/ Connect \/ Disconnect \/ Save
    \/ \E c \in Conns, id \in DOMAIN chats : join_chat(c, id)
    \/ \E c \in Conns : join_chat_saved(c)
    \/ \E c \in Conns, id \in DOMAIN chats, content \in Contents :
            send_message(c, id, content, FALSE)
    \/ \E c \in Conns : send_message_saved(c)
    \/ \E c \in Conns : send_message_notify(c)
    \/ \E c \in Conns : subscribe_location_alerts(c, "1-1", "none")
    \/ \E c \in Conns : subscribe_resource_alerts(c, Categories)
    \/ \E c \in Conns, cat \in Categories : send_emergency_alert(c, "1-1", "high", cat)
ReleaseSpec == Init /\ [][ReleaseNext]_vars

\* sockets that subscribe, again and again, and receive
TopicNext ==
    \/ Connect \/ Save
    \/ \E c \in Conns, id \in DOMAIN chats : join_chat(c, id)
    \/ \E c \in Conns : join_chat_saved(c)
    \/ \E c \in Conns, id \in DOMAIN chats, content \in Contents :
            send_message(c, id, content, FALSE)
    \/ \E c \in Conns : send_message_saved(c)
    \/ \E c \in Conns : send_message_notify(c)
    \/ \E c \in Conns : subscribe_location_alerts(c, "1-1", "none")
    \/ \E c \in Conns : subscribe_resource_alerts(c, Categories)
    \/ \E c \in Conns, cat \in Categories : send_emergency_alert(c, "1-1", "high", cat)
TopicSpec == Init /\ [][TopicNext]_vars

\* events the server refuses
RefusalNext ==
    \/ Connect \/ Save \/ Join
    \/ \E c \in Conns : subscribe_resource_alerts(c, Categories)
    \/ \E c \in Conns : subscribe_resource_alerts_malformed(c)
    \/ \E c \in Conns, cat \in Categories : send_emergency_alert(c, "1-1", "high", cat)
RefusalSpec == Init /\ [][RefusalNext]_vars

\* the push notifications of send_message, with three sockets
NotifyNext ==
    \/ ConnectThree \/ Save
    \/ \E c \in {"k2"} : disconnect(c)
    \/ \E c \in Conns, id \in DOMAIN chats, content \in Contents :
            send_message(c, id, content, FALSE)
    \/ \E c \in Conns : send_message_saved(c)
    \/ \E c \in Conns : send_message_notify(c)
NotifySpec == Init /\ [][NotifyNext]_vars

\* the typing indicators
Typing ==
    \/ \E c \in Conns, id \in ChatIds : start_typing(c, id)
    \/ \E c \in Conns, id \in ChatIds : stop_typing(c, id)
TypingNext == Connect \/ Save \/ Join \/ Leave \/ Typing
TypingSpec == Init /\ [][TypingNext]_vars

\* the personal rooms and what is sent to them
InboxNext ==
    \/ ConnectThree \/ Save
    \/ \E c \in {"k2"} : disconnect(c)
    \/ \E c \in {"k1", "k2"} : subscribe_resource_alerts(c, Categories)
    \/ \E c \in {"k1"} : subscribe_location_alerts(c, "1-1", "none")
    \/ \E c \in {"k1"} : join_chat(c, "c1")
    \/ \E c \in {"k1"} : join_chat_saved(c)
    \/ \E c \in {"k3"} : send_challenge_invitation(c, "ch1", <<"a", "b">>)
    \/ \E c \in {"k3"} : nominate_local_hero(c, "a")
    \/ \E c \in {"k3"} : notify_resource_available(c, "r1")
    \/ \E c \in {"k3"} : send_message(c, "c1", "hello", FALSE)
    \/ \E c \in {"k3"} : send_message_saved(c)
    \/ \E c \in {"k3"} : send_message_notify(c)
InboxSpec == Init /\ [][InboxNext]_vars

\* the location rooms, keyed by what the client's coordinates format to
LocationNext ==
    \/ Connect
    \/ \E c \in {"k1"} : disconnect(c)
    \/ \E c \in Conns, xy \in CoordinatePairs, f \in {"none", "some"} :
            subscribe_location_alerts(c, LocationKey(xy), f)
    \/ \E c \in {"k2"}, xy \in CoordinatePairs :
            send_emergency_alert(c, LocationKey(xy), "high", NoCategory)
    \/ \E c \in {"k2"}, xy \in CoordinatePairs :
            ai_need_prediction(c, LocationKey(xy), "medical")
LocationSpec == Init /\ [][LocationNext]_vars

\* ---------------------------------------------------------- properties
\* the ids of the messages of a chat's log, by position
LogIds(id) == [i \in DOMAIN chats[id].messages |-> chats[id].messages[i].id]

\* the deltas of a kind the store applied to a chat, in commit order
Committed(id, kinds) == SelectSeq(commits, LAMBDA k : k.chat = id /\ k.kind \in kinds)

\* C1: whatever the interleaving of concurrent send_message handlers (load,
\* addMessage, save), the log of a chat holds exactly the appends the store
\* committed, each once, at positions 1..n in the order they committed.
C1_AppendsInCommitOrder ==
    \A id \in DOMAIN chats :
        LogIds(id) = [i \in DOMAIN Committed(id, {"push"}) |-> Committed(id, {"push"})[i].mid]

\* two handlers that loaded the same version of the chat have both committed
C1_ConcurrentAppends ==
    \E c1, c2 \in Conns :
        /\ c1 # c2
        /\ h[c1].op = "send_message" /\ h[c1].pc \in {"saved", "notify"}
        /\ h[c2].op = "send_message" /\ h[c2].pc \in {"saved", "notify"}
        /\ h[c1].chat = h[c2].chat /\ h[c1].v = h[c2].v
        /\ Len(chats[h[c1].chat].messages) = 2

\* the deltas that change a ledger
LedgerKinds == {"push", "read", "react", "edit", "pull"}
PublishedAt(op) == CHOOSE i \in DOMAIN published : published[i].op = op
Received(c, op) == \E e \in delivered[c] : e.ev \in LedgerEvents /\ e.op = op

\* C2: of two mutations of one chat, a subscriber never gets the event of the one
\* that committed later before the event of the one that committed earlier (a
\* socket gets what it gets in the order of emission).
C2_EventsInCommitOrder ==
    \A i, j \in DOMAIN commits :
        /\ i < j
        /\ commits[i].kind \in LedgerKinds /\ commits[j].kind \in LedgerKinds
        /\ commits[i].chat = commits[j].chat
        => \A c \in Conns :
              Received(c, commits[i].op) /\ Received(c, commits[j].op)
              => PublishedAt(commits[i].op) < PublishedAt(commits[j].op)

\* C3: an identity is online exactly when one of its connections is live.
C3_OnlineIffConnected ==
    \A u \in Users : isOnline[u] <=> \E c \in Conns : conn[c] = "live" /\ userOf[c] = u

\* C4: every step keeps each socket of room chat:<id> a socket of a listed
\* participant of a stored chat <id>; a join_chat naming no stored chat, or sent
\* by a non-participant, changes no room and no chat and answers the sender with
\* the error; a participant's join_chat puts the socket in the room, and the
\* save it awaits stamps that participant's lastSeen and nothing else.
C4_Step ==
    /\ \A c \in Conns, id \in ChatIds :
          ChatRoom(id) \in rooms'[c]
          => id \in DOMAIN chats' /\ userOf'[c] \in Range(chats'[id].participants)
    /\ \A c \in Conns, id \in ChatIds :
          join_chat(c, id)
          => IF id \notin DOMAIN chats
             THEN /\ rooms' = rooms /\ chats' = chats /\ h' = h
                  /\ delivered' = [delivered EXCEPT ![c] =
                                      @ \cup {Event("error", ToSocket(c), NoChat, 0, ops + 1, "Chat not found")}]
             ELSE IF userOf[c] \notin Range(chats[id].participants)
             THEN /\ rooms' = rooms /\ chats' = chats /\ h' = h
                  /\ delivered' = [delivered EXCEPT ![c] =
                                      @ \cup {Event("error", ToSocket(c), NoChat, 0, ops + 1,
                                                    "Not authorized to join this chat")}]
             ELSE rooms' = [rooms EXCEPT ![c] = @ \cup {ChatRoom(id)}]
    /\ \A c \in Conns :
          save(c) /\ h[c].op = "join_chat" /\ h'[c].pc = "saved"
          => chats' = [chats EXCEPT ![h[c].chat].lastSeen[userOf[c]] = h[c].id]
C4_JoinGate == [][C4_Step]_vars

\* a participant has joined and been answered, an outsider and a join naming no
\* stored chat have been refused
C4_JoinedAndRefused ==
    /\ \E c \in Conns : \E e \in delivered[c] :
          e.ev = "joined_chat" /\ ChatRoom(e.chat) \in rooms[c] /\ chats[e.chat].lastSeen[e.by] = e.op
    /\ \E c \in Conns : \E e \in delivered[c] :
          e.ev = "error" /\ e.by = "Not authorized to join this chat"
    /\ \E c \in Conns : \E e \in delivered[c] : e.ev = "error" /\ e.by = "Chat not found"

\* the events of a chat's messages
MessageEvents == {"new_message", "message_edited", "message_deleted"}

EventOf(kind) ==
    CASE kind = "push" -> "new_message"
      [] kind = "edit" -> "message_edited"
      [] kind = "pull" -> "message_deleted"
      [] kind = "read" -> "message_read"
      [] kind = "react" -> "reaction_updated"
      [] OTHER -> "none"

\* the message deltas the store applied to chat id after join_chat subscribed c
CommittedAfterJoin(c, id) ==
    {i \in DOMAIN commits : /\ i > joinedAt[c][id]
                            /\ commits[i].chat = id
                            /\ commits[i].kind \in {"push", "edit", "pull"}}

\* the handler of inbound event op stands between its save and its broadcast
Pending(op) == \E k \in Conns : h[k].id = op /\ h[k].pc = "saved"

ReadCommits(u, m) ==
    {i \in DOMAIN commits : commits[i].kind = "read" /\ commits[i].by = u /\ m \in commits[i].mids}

\* C7: however often mark_as_read ran for a (chat, reader, message), at most one
\* of the runs has changed the message's read markers, the message holds one
\* marker of the reader if a run did and none otherwise, and it holds exactly
\* one after every run that was answered with message_read.
C7_MarkReadIdempotent ==
    /\ \A id \in DOMAIN chats : \A i \in DOMAIN chats[id].messages : \A u \in Users :
          /\ Cardinality(ReadCommits(u, chats[id].messages[i].id)) <= 1
          /\ Count(chats[id].messages[i].readBy, u)
                = Cardinality(ReadCommits(u, chats[id].messages[i].id))
    /\ \A k \in DOMAIN published :
          published[k].ev = "message_read" /\ published[k].mid # 0
          => \A i \in DOMAIN chats[published[k].chat].messages :
                chats[published[k].chat].messages[i].id = published[k].mid
                => Count(chats[published[k].chat].messages[i].readBy, published[k].by) = 1

\* mark_as_read has been answered twice for one (chat, reader, message) still in
\* the log
C7_MarkedTwice ==
    \E j, k \in DOMAIN published :
        /\ j < k
        /\ published[j].ev = "message_read" /\ published[k].ev = "message_read"
        /\ published[j].mid # 0 /\ published[j].mid = published[k].mid
        /\ published[j].by = published[k].by /\ published[j].chat = published[k].chat
        /\ \E i \in DOMAIN chats[published[j].chat].messages :
              chats[published[j].chat].messages[i].id = published[j].mid

\* the committed add_reaction deltas of (message, identity, emoji)
ReactCommits(m, u, e) ==
    {i \in DOMAIN commits : /\ commits[i].kind = "react" /\ commits[i].mid = m
                            /\ commits[i].by = u /\ commits[i].emoji = e}

\* C8: a message holds one reaction of (identity, emoji) after an odd number of
\* add_reaction calls for it went through and none after an even number,
\* whatever was done with other identities and emojis; each call answered with
\* reaction_updated went through.
C8_ReactionToggle ==
    /\ \A id \in DOMAIN chats : \A i \in DOMAIN chats[id].messages :
          \A u \in Users, e \in Emojis :
              Count(chats[id].messages[i].reactions, [user |-> u, emoji |-> e])
                 = Cardinality(ReactCommits(chats[id].messages[i].id, u, e)) % 2
    /\ \A k \in DOMAIN published :
          published[k].ev = "reaction_updated"
          => \E i \in DOMAIN commits : commits[i].op = published[k].op /\ commits[i].kind = "react"

\* two calls for one (message, identity, emoji) went through and the message is
\* in the log
C8_ToggledTwice ==
    \E id \in DOMAIN chats : \E i \in DOMAIN chats[id].messages : \E u \in Users, e \in Emojis :
        Cardinality(ReactCommits(chats[id].messages[i].id, u, e)) = 2

\* the events of an emergency alert
AlertEvents == {"emergency_alert", "critical_emergency_alert"}

\* C9: every emergency event a socket holds was sent by an admin or a verified
\* identity; send_emergency_alert of an identity that is neither gives the sender
\* the error and nothing else to anyone.
C9_Step ==
    /\ \A c \in Conns : \A e \in delivered'[c] \ delivered[c] :
          e.ev \in AlertEvents => role[e.by] = "admin" \/ isVerified[e.by]
    /\ \A c \in Conns :
          /\ conn[c] = "live" /\ ops' = ops + 1 /\ rooms' = rooms
          /\ ~(role[userOf[c]] = "admin" \/ isVerified[userOf[c]])
          /\ \E xy \in Coordinates \cup {NoLocation}, u \in Urgencies,
                cat \in Categories \cup {NoCategory} : send_emergency_alert(c, xy, u, cat)
          => delivered' = [delivered EXCEPT ![c] =
                              @ \cup {Event("error", ToSocket(c), NoChat, 0, ops + 1,
                                            "Not authorized to send emergency alerts")}]
C9_OnlyAdminOrVerified == [][C9_Step]_vars

\* an identity neither admin nor verified has been refused, and the alert of
\* another identity has reached a socket
C9_RefusedAndAccepted ==
    /\ \E c \in Conns : \E e \in delivered[c] :
          e.ev = "error" /\ e.by = "Not authorized to send emergency alerts"
    /\ \E c \in Conns : \E e \in delivered[c] : e.ev \in AlertEvents

\* the rooms a socket has asked for, its own inboxes aside
Subscriptions(c) == rooms[c] \ {UserRoom(userOf[c]), NotificationRoom(userOf[c])}

\* C10: an emergency alert reaches a socket only through a topic the socket
\* subscribes to: a socket whose only subscriptions are location rooms holds no
\* emergency event of another identity but those addressed to one of its
\* location rooms.
C10_OnlyTargetTopics ==
    \A c \in Conns :
        /\ conn[c] = "live"
        /\ Subscriptions(c) # {}
        /\ Subscriptions(c) \subseteq {LocationRoom(xy) : xy \in Coordinates}
        => \A e \in delivered[c] :
              e.ev \in AlertEvents /\ e.by # userOf[c] => e.via \in rooms[c]

\* C11: a join_chat that was answered with an error has left its socket out of
\* the chat's room: a socket that is in room chat:<id> with no handler in flight
\* holds the joined_chat answer of a join of <id>.
C11_FailedJoinLeavesNoRoom ==
    \A c \in Conns, id \in DOMAIN chats :
        ChatRoom(id) \in rooms[c] /\ h[c].pc = "idle"
        => \E e \in delivered[c] : e.ev = "joined_chat" /\ e.chat = id

\* C12: a socket that chatHandler has put in its inbox rooms, shown online and
\* announced with user_online is one authenticateSocket has attached an identity
\* to: nothing acts for a connection before its verification.
C12_VerifiedBeforeActing ==
    \A c \in Conns :
        \/ authenticated[c]
        \/ /\ rooms[c] = {}
           /\ conn[c] = "new"
           /\ \A k \in Conns : \A e \in delivered[k] :
                 e.ev = "user_online" => e.via # ToOthers(c)

\* C13: the step that disconnects a socket empties the socket's rooms and
\* changes the rooms of no other socket (of the same identity or not), and from
\* then on the socket stays out of every room and receives no event.
C13_Step ==
    \A c \in Conns :
        /\ conn[c] = "live" /\ conn'[c] = "closed"
           => /\ rooms'[c] = {} /\ delivered'[c] = delivered[c]
              /\ \A k \in Conns \ {c} : rooms'[k] = rooms[k]
        /\ conn[c] = "closed"
           => conn'[c] = "closed" /\ rooms'[c] = {} /\ delivered'[c] = delivered[c]
C14_Step ==
    /\ \A c \in Conns, id \in DOMAIN chats :
          /\ ops' = ops + 1
          /\ userOf[c] \notin Range(chats[id].participants)
          /\ \E content \in Contents : send_message(c, id, content, FALSE)
          => /\ chats' = chats /\ h' = h /\ commits' = commits /\ published' = published
             /\ delivered' = [delivered EXCEPT ![c] =
                                 @ \cup {Event("error", ToSocket(c), NoChat, 0, ops + 1,
                                               "Not authorized to send messages")}]
    /\ \A id \in DOMAIN chats : \A i \in DOMAIN chats'[id].messages :
          chats'[id].messages[i].sender \in Range(chats'[id].participants)
    /\ \A c \in Conns : \A e \in delivered'[c] \ delivered[c] :
          e.ev \in {"new_message", "notification"}
          => e.by \in Range(chats[e.chat].participants)
C14_NonParticipantCannotAppend == [][C14_Step]_vars

\* an outsider's send_message has been refused while the chat holds a
\* participant's message that went out as new_message
C14_RefusedAndAppended ==
    /\ \E c \in Conns : \E e \in delivered[c] :
          e.ev = "error" /\ e.by = "Not authorized to send messages"
    /\ \E id \in DOMAIN chats :
          /\ chats[id].messages # <<>>
          /\ \E k \in DOMAIN published : published[k].ev = "new_message" /\ published[k].chat = id

\* C15: the save that commits the append of sender S to a chat leaves the
\* last-message summary describing the appended message, the unread count of
\* every other participant one greater than before, and the count of S as it
\* was, with or without an unreadCounts entry before the append.
C15_Step ==
    \A c \in Conns :
        /\ h[c].pc = "save" /\ h[c].kind = "push"
        /\ h'[c].pc = "saved"
        /\ save(c)
        => LET id == h[c].chat
           IN  /\ chats'[id].lastMessage.content = h[c].content
               /\ chats'[id].lastMessage.sender = h[c].user
               /\ \A u \in Range(chats[id].participants) :
                     getUnreadCount(chats'[id], u)
                        = getUnreadCount(chats[id], u) + (IF u = h[c].user THEN 0 ELSE 1)
C15_AppendCountsUnread == [][C15_Step]_vars

\* C16: every message of a log carries exactly one kind of content: a
\* send_message with text and a voice note together, or with neither, has
\* appended nothing.
C16_ExactlyOneKind ==
    \A id \in DOMAIN chats : \A i \in DOMAIN chats[id].messages :
        (chats[id].messages[i].content # "") # chats[id].messages[i].voiceNote

\* the identity whose append of message m is in the commit log
SenderOf(log, m) == log[CHOOSE i \in DOMAIN log : log[i].kind = "push" /\ log[i].mid = m].by

\* C17: edit_message of an identity that did not send the message answers the
\* requester with the error and changes nothing else (content, originalContent
\* and isEdited of the message included) and publishes nothing; every edit the
\* store has applied and every message_edited event is the sender's own.
C17_Step ==
    /\ \A c \in Conns, id \in DOMAIN chats, m \in MessageIds :
          /\ ops' = ops + 1
          /\ \E i \in DOMAIN chats[id].messages :
                chats[id].messages[i].id = m /\ chats[id].messages[i].sender # userOf[c]
          /\ \E t \in NewContents : edit_message(c, id, m, t)
          => /\ chats' = chats /\ h' = h /\ commits' = commits /\ published' = published
             /\ delivered' = [delivered EXCEPT ![c] =
                                 @ \cup {Event("error", ToSocket(c), NoChat, 0, ops + 1,
                                               "Not authorized to edit this message")}]
    /\ \A i \in DOMAIN commits' :
          commits'[i].kind = "edit" => commits'[i].by = SenderOf(commits', commits'[i].mid)
    /\ \A k \in DOMAIN published' :
          published'[k].ev = "message_edited" => published'[k].by = SenderOf(commits', published'[k].mid)
C17_OnlySenderEdits == [][C17_Step]_vars

\* another identity's edit of a message has been refused and the sender's edit
\* of it has been published
C17_RefusedAndEdited ==
    /\ \E c \in Conns : \E e \in delivered[c] :
          e.ev = "error" /\ e.by = "Not authorized to edit this message"
    /\ \E k \in DOMAIN published : published[k].ev = "message_edited"

\* C18: the save that commits an edit of a message leaves originalContent as it
\* was when the message had been edited before, and sets it to the content the
\* message had when it had not: originalContent is the content before the first
\* edit, whatever the number of edits.
C18_Step ==
    \A c \in Conns :
        /\ h[c].pc = "save" /\ h[c].kind = "edit"
        /\ h'[c].pc = "saved"
        /\ save(c)
        => LET id == h[c].chat
               at == MessageIndex(chats[id], h[c].mid)
           IN  at # 0
               => chats'[id].messages[at].originalContent
                     = IF chats[id].messages[at].isEdited
                       THEN chats[id].messages[at].originalContent
                       ELSE chats[id].messages[at].content
C18_OriginalContentKept == [][C18_Step]_vars

\* the identity holds a moderator or admin role, as a user or in the chat
HoldsRole(doc, u) ==
    \/ role[u] \in {"moderator", "admin"}
    \/ u \in DOMAIN doc.role /\ doc.role[u] \in {"moderator", "admin"}

\* C19: delete_message for a message of the log goes on to remove it exactly
\* when the requester sent the message or holds a moderator or admin role;
\* otherwise the requester gets the error, the message stays and nothing is
\* published.
C19_Step ==
    \A c \in Conns, id \in DOMAIN chats, m \in MessageIds :
        /\ ops' = ops + 1
        /\ MessageIndex(chats[id], m) # 0
        /\ delete_message(c, id, m)
        => IF \/ chats[id].messages[MessageIndex(chats[id], m)].sender = userOf[c]
              \/ HoldsRole(chats[id], userOf[c])
           THEN h'[c].pc = "save" /\ h'[c].kind = "pull" /\ h'[c].mid = m
           ELSE /\ chats' = chats /\ h' = h /\ commits' = commits /\ published' = published
                /\ delivered' = [delivered EXCEPT ![c] =
                                    @ \cup {Event("error", ToSocket(c), NoChat, 0, ops + 1,
                                                  "Not authorized to delete this message")}]
C19_DeleteBySenderOrRole == [][C19_Step]_vars

\* the ids of the log of chat id after the first n deltas of the commit log
RECURSIVE LogAfter(_, _)
LogAfter(id, n) ==
    IF n = 0 THEN <<>>
    ELSE LET k == commits[n]
             before == LogAfter(id, n - 1)
         IN  IF k.chat # id THEN before
             ELSE IF k.kind = "push" THEN Append(before, k.mid)
             ELSE IF k.kind = "pull" THEN SelectSeq(before, LAMBDA x : x # k.mid)
             ELSE before

\* the appends the store committed to chat id, as indices of the commit log
Appends(id) == {i \in DOMAIN commits : commits[i].chat = id /\ commits[i].kind = "push"}

\* the position the append committed as delta i was given: its index in the log
AppendPosition(id, i) == Len(LogAfter(id, i))

\* C20: every message of a log stands at the position its append gave it,
\* whatever was deleted since, and no two appends to a chat were given the
\* same position.
C20_PositionsKept ==
    \A id \in DOMAIN chats :
        /\ \A k \in DOMAIN chats[id].messages :
              \A i \in Appends(id) :
                  commits[i].mid = chats[id].messages[k].id => k = AppendPosition(id, i)
        /\ \A i, j \in Appends(id) : i # j => AppendPosition(id, i) # AppendPosition(id, j)

\* C21: the last-message summary of a chat is that of the message at the tail
\* of the log, and empty when the log is empty: it never refers to a message
\* that has been deleted.
C21_SummaryIsTail ==
    \A id \in DOMAIN chats :
        LET msgs == chats[id].messages
        IN  IF msgs = <<>>
            THEN chats[id].lastMessage = NoLast
            ELSE /\ chats[id].lastMessage.sentAt = msgs[Len(msgs)].id
                 /\ chats[id].lastMessage.sender = msgs[Len(msgs)].sender

\* the markers of a message that are not the reader's
OthersMarkers(msg, u) == SelectSeq(msg.readBy, LAMBDA w : w # u)

\* C22: when the save of a markAsRead without a message id changes the chat,
\* every message of the chat then holds exactly one marker of the reader, the
\* reader's unread count is zero, and the markers and unread counts of everyone
\* else are as they were; a markAsRead that found nothing to mark leaves the
\* chat as it is.
C22_Step ==
    \A c \in Conns :
        /\ h[c].pc = "save" /\ h[c].op = "mark_as_read" /\ h[c].mid = 0
        /\ h'[c].pc = "saved"
        /\ save(c)
        => LET id == h[c].chat
               u == h[c].user
           IN  IF h[c].kind = "read"
               THEN /\ DOMAIN chats'[id].messages = DOMAIN chats[id].messages
                    /\ \A i \in DOMAIN chats'[id].messages :
                          /\ chats'[id].messages[i].id = chats[id].messages[i].id
                          /\ Count(chats'[id].messages[i].readBy, u) = 1
                          /\ OthersMarkers(chats'[id].messages[i], u)
                                = OthersMarkers(chats[id].messages[i], u)
                    /\ getUnreadCount(chats'[id], u) = 0
                    /\ \A w \in Users \ {u} :
                          getUnreadCount(chats'[id], w) = getUnreadCount(chats[id], w)
               ELSE chats' = chats
C23_Step ==
    \A c \in Conns :
        /\ h[c].op = "mark_as_read" /\ h[c].pc = "saved"
        /\ mark_as_read_saved(c)
        => LET e == Event("message_read", ChatRoom(h[c].chat), h[c].chat, h[c].mid,
                          h[c].id, h[c].user)
           IN  \A k \in Conns :
                   delivered'[k] = IF k # c /\ ChatRoom(h[c].chat) \in rooms[k]
                                   THEN delivered[k] \cup {e}
                                   ELSE delivered[k]
C23_ReadReceiptToRoom == [][C23_Step]_vars

\* a socket in the chat's room holds the read receipt of another socket's
\* reader, and the reader's socket holds none
C23_ReceiptReceived ==
    \E c, k \in Conns :
        /\ c # k
        /\ \E e \in delivered[k] :
              /\ e.ev = "message_read" /\ e.by = userOf[c] /\ e.by # userOf[k]
              /\ e.via = ChatRoom(e.chat)
              /\ ChatRoom(e.chat) \in rooms[k]
        /\ \A e \in delivered[c] : e.ev # "message_read"

\* C24: add_reaction that names a chat the store does not hold, or a message
\* the chat does not hold, sends one error to the socket it came from and to
\* no other socket, changes no chat, commits nothing, publishes nothing and
\* leaves no handler running that could.
C24_Step ==
    \A c \in Conns, id \in ChatIds, m \in MessageIds :
        /\ ops' = ops + 1
        /\ id \notin DOMAIN chats \/ MessageIndex(chats[id], m) = 0
        /\ \E e \in Emojis : add_reaction(c, id, m, e)
        => /\ chats' = chats /\ h' = h /\ commits' = commits /\ published' = published
           /\ delivered' = [delivered EXCEPT ![c] =
                               @ \cup {Error(c, IF id \notin DOMAIN chats
                                                THEN "Chat not found"
                                                ELSE "Message not found", ops + 1)}]
C24_MissingTargetRejected == [][C24_Step]_vars

\* a socket was told that the message of its reaction does not exist, while
\* the chat holds a message without reactions and the other socket holds no error
C24_ReactionRefused ==
    \E c \in Conns :
        /\ \E e \in delivered[c] : e.ev = "error" /\ e.by = "Message not found"
        /\ \E k \in Conns \ {c} : conn[k] = "live"
        /\ \A k \in Conns \ {c} : \A e \in delivered[k] : e.ev # "error"
        /\ \E id \in DOMAIN chats : \E i \in DOMAIN chats[id].messages :
              chats[id].messages[i].reactions = <<>>

\* C25: ai_need_prediction of an identity that is not an admin gives its socket
\* the error and nothing to anyone else; that of an admin puts the
\* ai_prediction_alert in every socket of the location's room (when a location
\* is given) and of the predicted category's room, and in no other socket.
C25_Step ==
    \A c \in Conns, xy \in Coordinates \cup {NoLocation}, cat \in ResourceCategories :
        /\ ops' = ops + 1 /\ rooms' = rooms /\ conn[c] = "live"
        /\ ai_need_prediction(c, xy, cat)
        => IF role[userOf[c]] # "admin"
           THEN delivered' = [delivered EXCEPT ![c] = @ \cup {Error(c, "Not authorized", ops + 1)}]
           ELSE \A k \in Conns :
                   delivered'[k] = delivered[k] \cup
                       {Event("ai_prediction_alert", r, NoChat, 0, ops + 1, userOf[c]) :
                           r \in rooms[k] \cap ({ResourceRoom(cat)} \cup
                                    (IF xy = NoLocation THEN {} ELSE {LocationRoom(xy)}))}
C26_Step ==
    \A c \in Conns, rid \in ResourceIds :
        /\ ops' = ops + 1 /\ rooms' = rooms /\ conn[c] = "live"
        /\ notify_resource_available(c, rid)
        => IF rid \notin DOMAIN Resources
           THEN delivered' = [delivered EXCEPT ![c] =
                                 @ \cup {Error(c, "Resource not found", ops + 1)}]
           ELSE IF Resources[rid].owner # userOf[c]
           THEN delivered' = [delivered EXCEPT ![c] = @ \cup {Error(c, "Not authorized", ops + 1)}]
           ELSE \A k \in Conns :
                   delivered'[k] = delivered[k] \cup
                       {Event("resource_notification", r, NoChat, 0, ops + 1, userOf[c]) :
                           r \in rooms[k] \cap
                                   ({ResourceRoom(Resources[rid].category)} \cup
                                    {NotificationRoom(u) : u \in Range(Resources[rid].interestedUsers)})}
C26_NotificationOnlyFromOwner == [][C26_Step]_vars

\* the socket of an interested identity holds the owner's notification through
\* its inbox, and a socket holds the refusal of a notification
C26_NotifiedAndRefused ==
    /\ \E k \in Conns : \E e \in delivered[k] :
          /\ e.ev = "resource_notification" /\ e.via = NotificationRoom(userOf[k])
          /\ e.by # userOf[k]
    /\ \E c \in Conns : \E e \in delivered[c] :
          e.ev = "error" /\ e.by \in {"Not authorized", "Resource not found"}

\* C27: celebrate_impact_milestone puts the impact_milestone alert in every
\* live socket of the identity it came from, and, unless the milestone is a
\* community one, gives nothing to the sockets of any other identity.
C27_Step ==
    \A c \in Conns, m \in Milestones :
        /\ conn[c] = "live" /\ ops' = ops + 1
        /\ celebrate_impact_milestone(c, m)
        => \A k \in Conns :
              /\ conn[k] = "live" /\ userOf[k] = userOf[c]
                 => Event("impact_milestone", ToSocket(c), NoChat, 0, ops + 1, userOf[c])
                       \in delivered'[k]
              /\ userOf[k] # userOf[c] /\ ~Significant(m) => delivered'[k] = delivered[k]
C27_MilestoneToEveryDevice == [][C27_Step]_vars

\* C28: leave_chat answers its socket with left_chat whether or not the socket
\* was in the chat's room; afterwards the socket is not in that room, its other
\* rooms and the rooms of every other socket are as they were, and a leave_chat
\* of a socket that is not in the room changes no room at all.
C28_Step ==
    \A c \in Conns, id \in ChatIds :
        /\ conn[c] = "live" /\ ops' = ops + 1
        /\ leave_chat(c, id)
        => /\ delivered' = [delivered EXCEPT ![c] =
                               @ \cup {Event("left_chat", ToSocket(c), id, 0, ops + 1, userOf[c])}]
           /\ ChatRoom(id) \notin rooms'[c]
           /\ rooms'[c] \cup {ChatRoom(id)} = rooms[c] \cup {ChatRoom(id)}
           /\ \A k \in Conns \ {c} : rooms'[k] = rooms[k]
           /\ ChatRoom(id) \notin rooms[c] => rooms' = rooms
           /\ chats' = chats /\ conn' = conn
C28_LeaveIdempotent == [][C28_Step]_vars

\* a socket that had joined a chat has left it twice and holds both answers
C28_LeftTwice ==
    \E c \in Conns, id \in DOMAIN chats :
        /\ \E e \in delivered[c] : e.ev = "joined_chat" /\ e.chat = id
        /\ \E e1, e2 \in delivered[c] :
              /\ e1.ev = "left_chat" /\ e2.ev = "left_chat"
              /\ e1.chat = id /\ e2.chat = id /\ e1.op < e2.op
        /\ ChatRoom(id) \notin rooms[c]
        /\ NotificationRoom(userOf[c]) \in rooms[c]

\* the rooms of the topics a socket can ask for
TopicRooms ==
    {ResourceRoom(cat) : cat \in Categories} \cup {LocationRoom(xy) : xy \in Coordinates}
        \cup {ChatRoom(id) : id \in DOMAIN chats}

\* what a step has brought a socket through a room
NewThrough(before, after, r) == {e \in after \ before : e.via = r}

\* C29: a socket that subscribes to categories, to a location or to a chat is
\* in the topic's room afterwards, whether or not it was in it before: asking
\* again for a room it is in changes no room. A step that publishes an event
\* to a topic's room brings each socket of the room that event exactly once.
C29_Step ==
    /\ \A c \in Conns :
          /\ conn[c] = "live" /\ ops' = ops + 1 /\ h' = h
          /\ subscribe_resource_alerts(c, Categories)
          => /\ \A cat \in Categories : ResourceRoom(cat) \in rooms'[c]
             /\ (\A cat \in Categories : ResourceRoom(cat) \in rooms[c]) => rooms' = rooms
    /\ \A c \in Conns, xy \in Coordinates :
          /\ conn[c] = "live" /\ ops' = ops + 1 /\ h' = h
          /\ subscribe_location_alerts(c, xy, "none")
          => /\ LocationRoom(xy) \in rooms'[c]
             /\ LocationRoom(xy) \in rooms[c] => rooms' = rooms
    /\ \A c \in Conns, id \in DOMAIN chats :
          /\ conn[c] = "live" /\ ops' = ops + 1 /\ h'[c].op = "join_chat"
          /\ userOf[c] \in Range(chats[id].participants)
          /\ join_chat(c, id)
          => /\ ChatRoom(id) \in rooms'[c]
             /\ ChatRoom(id) \in rooms[c] => rooms' = rooms
    /\ \A r \in TopicRooms :
          /\ delivered' # delivered
          /\ \E k \in Conns : NewThrough(delivered[k], delivered'[k], r) # {}
          => \A k \in Conns :
                r \in rooms[k] => Cardinality(NewThrough(delivered[k], delivered'[k], r)) = 1
Refusal(c) ==
    \/ \E id \in ChatIds :
          /\ id \notin DOMAIN chats \/ ~isParticipant(chats[id], userOf[c])
          /\ join_chat(c, id)
    \/ /\ ~MayAlert(userOf[c])
       /\ \E cat \in Categories : send_emergency_alert(c, "1-1", "high", cat)
    \/ subscribe_resource_alerts_malformed(c)

\* C30: an event the server refuses gives the socket it came from one error
\* event and gives no other socket anything; no socket is disconnected by it
\* and no socket leaves a room.
C30_Step ==
    \A c \in Conns :
        /\ conn[c] = "live" /\ ops' = ops + 1
        /\ Refusal(c)
        => /\ \E e \in delivered'[c] \ delivered[c] : e.ev = "error" /\ e.op = ops + 1
           /\ \A k \in Conns \ {c} : delivered'[k] = delivered[k]
           /\ conn' = conn
           /\ rooms' = rooms
C30_RefusalReported == [][C30_Step]_vars

\* the live sockets of identity u
SocketsOf(u) == {k \in Conns : conn[k] = "live" /\ userOf[k] = u}

\* C31: presence is announced on transitions only: a socket that connects
\* while its identity has a live socket brings no one a user_online, and a
\* socket that disconnects while its identity keeps a live socket brings no
\* one a user_offline and leaves lastActive as it is; the first socket of an
\* identity and its last one do announce.
C31_Step ==
    \A c \in Conns :
        /\ conn[c] = "new" /\ conn'[c] = "live"
           => IF SocketsOf(userOf'[c]) # {}
              THEN delivered' = delivered
              ELSE \A k \in Live : \E e \in delivered'[k] \ delivered[k] : e.ev = "user_online"
        /\ conn[c] = "live" /\ conn'[c] = "closed" /\ ops' = ops
           => IF SocketsOf(userOf[c]) # {c}
              THEN delivered' = delivered /\ lastActive' = lastActive
              ELSE lastActive'[userOf[c]] # lastActive[userOf[c]]
C31_PresenceOnTransitions == [][C31_Step]_vars

\* C32: once message_deleted of a message has been published, no
\* message_edited and no reaction_updated of that message is published, and a
\* message whose pull the store has applied is in no ledger.
C32_NothingAfterDeleted ==
    /\ \A i, j \in DOMAIN published :
          /\ i < j
          /\ published[i].ev = "message_deleted"
          /\ published[j].chat = published[i].chat /\ published[j].mid = published[i].mid
          => published[j].ev \notin {"message_edited", "reaction_updated"}
    /\ \A i \in DOMAIN commits :
          commits[i].kind = "pull"
          => MessageIndex(chats[commits[i].chat], commits[i].mid) = 0

\* C33: every message holds at most one read marker of each identity, however
\* the mark_as_read handlers of the identity's sockets interleave.
C33_OneMarkerPerIdentity ==
    \A id \in DOMAIN chats : \A i \in DOMAIN chats[id].messages : \A u \in Users :
        Count(chats[id].messages[i].readBy, u) <= 1

\* two sockets of one identity ran mark_as_read on the same chat at once: the
\* save of one pushed the marker, the save of the other was refused
C33_ConcurrentReaders ==
    \E c, k \in Conns :
        /\ c # k /\ userOf[c] = userOf[k] /\ userOf[c] # NoUser
        /\ \E e \in delivered[k] : e.ev = "error" /\ e.by = "Error marking message as read"
        /\ \E j \in DOMAIN commits :
              /\ commits[j].kind = "read" /\ commits[j].by = userOf[c]
              /\ \E i \in DOMAIN chats[commits[j].chat].messages :
                    Count(chats[commits[j].chat].messages[i].readBy, userOf[c]) = 1

\* C34: the notification of a new message goes to no identity that holds a
\* live socket: the turn of send_message's loop for a participant brings
\* nothing to the live sockets of that participant.
C34_Step ==
    \A c \in Conns :
        /\ h[c].op = "send_message" /\ h[c].pc = "notify"
        /\ send_message_notify(c)
        => \A k \in SocketsOf(Head(h[c].todo)) : delivered'[k] = delivered[k]
C34_NotificationOnlyOffline == [][C34_Step]_vars

\* the position in the commit log of the last markAsRead of u on chat id, 0 if none
LastReadCommit(id, u) ==
    LET reads == {i \in DOMAIN commits :
                     commits[i].kind = "read" /\ commits[i].chat = id /\ commits[i].by = u}
    IN  IF reads = {} THEN 0 ELSE CHOOSE i \in reads : \A j \in reads : j <= i

\* C35: the unread count of each participant of a chat is the number of
\* messages other participants have appended to the chat since the
\* participant's last markAsRead.
C35_UnreadExact ==
    \A id \in DOMAIN chats : \A u \in Range(chats[id].participants) :
        getUnreadCount(chats[id], u)
           = Cardinality({i \in DOMAIN commits :
                             /\ i > LastReadCommit(id, u)
                             /\ commits[i].kind = "push" /\ commits[i].chat = id
                             /\ commits[i].by # u})

\* C36: mark_as_read from a user who is not a participant of the chat, or
\* naming a message the chat does not hold, delivers no message_read to any
\* socket; and no message carries the read marker of a user who is not a
\* participant of its chat.
C36_Step ==
    /\ \A c \in Conns :
          /\ h[c].op = "mark_as_read" /\ h[c].pc = "saved"
          /\ mark_as_read_saved(c)
          /\ \/ ~isParticipant(chats[h[c].chat], userOf[c])
             \/ h[c].mid # 0 /\ MessageIndex(chats[h[c].chat], h[c].mid) = 0
          => delivered' = delivered
    /\ \A id \in DOMAIN chats' : \A i \in DOMAIN chats'[id].messages :
          \A u \in Range(chats'[id].messages[i].readBy) : isParticipant(chats'[id], u)
C36_OnlyParticipantsRead == [][C36_Step]_vars

\* C37: start_typing and stop_typing deliver nothing to the socket they came
\* from, and deliver their event to another socket only when the sender is a
\* participant of the chat whose socket has joined the chat's room.
C37_Step ==
    \A c \in Conns, id \in ChatIds :
        /\ ops' = ops + 1
        /\ start_typing(c, id) \/ stop_typing(c, id)
        => /\ delivered'[c] = delivered[c]
           /\ delivered' # delivered
              => /\ id \in DOMAIN chats
                 /\ isParticipant(chats[id], userOf[c])
                 /\ ChatRoom(id) \in rooms[c]
C37_TypingStaysInChat == [][C37_Step]_vars

\* the personal rooms of user u
Inbox(u) == {UserRoom(u), NotificationRoom(u)}

\* C38: a socket is in the user: or notifications: room of a user only while
\* it is a live socket of that user, and an event sent to such a room is held
\* only by sockets of that user.
C38_InboxPrivate ==
    \A c \in Conns, u \in Users :
        /\ rooms[c] \cap Inbox(u) # {} => conn[c] = "live" /\ userOf[c] = u
        /\ \A e \in delivered[c] : e.via \in Inbox(u) => userOf[c] = u

\* a live socket of one user holds a challenge invitation, a resource
\* notification or a hero nomination sent to its notifications: room and a
\* message notification sent to its user: room, both by another user whose
\* live socket holds none of them
C38_AlertInInbox ==
    \E c, k \in Conns :
        /\ conn[c] = "live" /\ conn[k] = "live" /\ userOf[c] # userOf[k]
        /\ \E e \in delivered[c] :
              /\ e.ev \in {"challenge_invitation", "resource_notification", "hero_nomination"}
              /\ e.via = NotificationRoom(userOf[c])
              /\ e.by = userOf[k]
        /\ \E e \in delivered[c] :
              e.ev = "notification" /\ e.via = UserRoom(userOf[c]) /\ e.by = userOf[k]
        /\ \A e \in delivered[k] : e.via \notin Inbox(userOf[c])

\* the coordinate pairs whose location room holds socket k
SubscribedPairs(k) == {xy \in CoordinatePairs : LocationRoom(LocationKey(xy)) \in rooms[k]}

\* C39: subscribe_location_alerts with coordinates L, whatever the forecast
\* query (the only reader of the radius) answers, adds L and no other pair to
\* the pairs the socket is subscribed to; an emergency alert or a prediction
\* alert sent for coordinates L reaches, through a location room, exactly the
\* sockets subscribed with the pair L, and through no other location room.
C39_Step ==
    \A c \in Conns, L \in CoordinatePairs :
        (ops' = ops + 1 /\ conn[c] = "live")
        => /\ (\E f \in {"none", "some"} : subscribe_location_alerts(c, LocationKey(L), f))
              => ({xy \in CoordinatePairs : LocationRoom(LocationKey(xy)) \in rooms'[c]}
                     = SubscribedPairs(c) \cup {L})
           /\ ( \/ MayAlert(userOf[c])
                    /\ send_emergency_alert(c, LocationKey(L), "high", NoCategory)
                \/ MayPredict(userOf[c])
                    /\ ai_need_prediction(c, LocationKey(L), "medical") )
              => \A k \in Conns :
                    /\ (\E e \in delivered'[k] \ delivered[k] : e.via[1] = "location")
                          <=> L \in SubscribedPairs(k)
                    /\ \A e \in delivered'[k] \ delivered[k] :
                          e.via[1] = "location" => e.via = LocationRoom(LocationKey(L))
C39_ExactCoordinates == [][C39_Step]_vars

\* two live sockets subscribed with the mirrored pairs [1, 11] and [11, 1]:
\* the alert sent for [1, 11] is held by the first and not by the second
C39_MirroredPairApart ==
    \E c, k \in Conns :
        /\ c # k /\ conn[c] = "live" /\ conn[k] = "live"
        /\ SubscribedPairs(c) = {<<1, 11>>}
        /\ SubscribedPairs(k) = {<<11, 1>>}
        /\ \E e \in delivered[c] :
              e.ev \in {"emergency_alert", "ai_prediction_alert"}
                 /\ e.via = LocationRoom(LocationKey(<<1, 11>>))
        /\ \A e \in delivered[k] : e.ev \notin {"emergency_alert", "ai_prediction_alert"}

\* C40: a socket holds the alert event of one send_emergency_alert,
\* ai_need_prediction or notify_resource_available request at most once,
\* however many of the rooms the request sends to hold the socket.
C40_AlertOnce ==
    \A k \in Conns : \A e1, e2 \in delivered[k] :
        /\ e1.ev \in {"emergency_alert", "ai_prediction_alert", "resource_notification"}
        /\ e1.ev = e2.ev /\ e1.op = e2.op
        => e1.via = e2.via

====
